---- MODULE Spec2Model ----
(***************************************************************************)
(* Pokerdom -> PokerStars hand-history converter (src/converter.py).       *)
(*                                                                         *)
(* The pipeline of convert_file is modelled as a state machine:            *)
(*   PokerdomParser.parse   segmentation loop  (SegLine, SegEnd)           *)
(*   PokerdomParser.parse   extraction loop    (ParseChunk)                *)
(*   convert_file           rendering loop     (WriteHand)                 *)
(*                                                                         *)
(* A source line is a sequence of lexical fields (tokens), each a string.  *)
(* The regular expressions of PokerdomParser.PATTERNS are modelled as      *)
(* anchored prefix matchers over those fields; what a matcher needs to     *)
(* know about the inside of one field (the digits of a money token, the    *)
(* colon that ends a name) is given by the tables below.  Sums of money    *)
(* are counted in cents.  The hand header, the table line and the          *)
(* max-players note are not modelled: no property below reads them, and    *)
(* the writer formats them without a failure case.                         *)
(***************************************************************************)
EXTENDS Integers, Sequences, FiniteSets, TLC

\* ------------------------------------------------------------------ bounds
\* Longest input text (in lines) of the extraction specifications.
MaxLines == 3
\* Longest input text (in lines) of the action-order specification.
MaxOrderLines == 4
\* Longest input text (in lines) of the seats-and-blinds specification.
MaxHeadLines == 4
\* Longest input text (in lines) of the segmentation specification.
MaxSegLines == 6

\* ------------------------------------------------------------ token tables
\* Leading white space of a line (the lines are rstrip'ed before they are
\* classified, so trailing white space is never seen by a matcher).
WS == "_"

\* Optional values (None).
NoneAmt == -1
NoneStr == "None"

\* str.upper() / str.lower() on the fields where the code applies them.
Upper(t) ==
  CASE t = "flop" -> "FLOP"
    [] t = "summary" -> "SUMMARY"
    [] OTHER -> t

Lower(t) ==
  CASE t = "RAISES" -> "raises"
    [] t = "TO" -> "to"
    [] t = "Small" -> "small"
    [] OTHER -> t

\* (?P<cur>[$...]?)(?P<amt>\d+(?:\.\d+)?) tried at the start of a field: the
\* fields it matches, with the currency glyph and float(amt) in cents.  The
\* search is not anchored at the end, so "1x" matches with amt = "1".
\* "abc" and "$" have no digit where one is needed and do not match.
MoneyTab ==
  ( "$5"    :> [cur |-> "$", cents |-> 500]  ) @@
  ( "$12.5" :> [cur |-> "$", cents |-> 1250] ) @@
  ( "12.5"  :> [cur |-> "",  cents |-> 1250] ) @@
  ( "$2"    :> [cur |-> "$", cents |-> 200]  ) @@
  ( "E1"    :> [cur |-> "E", cents |-> 100]  ) @@
  ( "1x"    :> [cur |-> "",  cents |-> 100]  )

IsMoney(t) == t \in DOMAIN MoneyTab

\* \((?P<cur>[$...]?)(?P<stack>\d+(?:\.\d+)?)\) : a parenthesised stack.
StackTab ==
  ( "($10)" :> [cur |-> "$", cents |-> 1000] ) @@
  ( "($20)" :> [cur |-> "$", cents |-> 2000] )

IsStack(t) == t \in DOMAIN StackTab

\* (?P<num>\d+): : a seat number followed by its colon, with int(num).
SeatNumTab == ( "0:" :> 0 ) @@ ( "1:" :> 1 ) @@ ( "2:" :> 2 )

IsSeatNum(t) == t \in DOMAIN SeatNumTab

\* A field that ends with a colon, and the field without it.
ColonTab == ( "Bob:" :> "Bob" ) @@ ( "Ann:" :> "Ann" ) @@
            ( "0:" :> "0" ) @@ ( "1:" :> "1" ) @@ ( "2:" :> "2" )

EndsWithColon(t) == t \in DOMAIN ColonTab

\* \[(?P<board>[^\]]+)\] : a bracketed field, with its inside strip()'ed and
\* put back between brackets (f"[{board.strip()}]").
BracketTab ==
  ( "[2c 3d 4h]" :> "[2c 3d 4h]" ) @@
  ( "[ 9s ]"     :> "[9s]" )       @@
  ( "[Ah Kh]"    :> "[Ah Kh]" )    @@
  ( "[Qs Qd]"    :> "[Qs Qd]" )

IsBracket(t) == t \in DOMAIN BracketTab

\* \[(?P<cards>[2-9TJQKA][cdhs]\s+[2-9TJQKA][cdhs])\] : exactly two cards,
\* with cards.strip().
HoleTab == ( "[Ah Kh]" :> "Ah Kh" ) @@ ( "[Qs Qd]" :> "Qs Qd" )

IsHole(t) == t \in DOMAIN HoleTab

\* \[(?P<cards>[^\]]+)\] of the show pattern: the inside, as it stands.
ShowTab ==
  ( "[2c 3d 4h]" :> "2c 3d 4h" ) @@
  ( "[ 9s ]"     :> " 9s " )     @@
  ( "[Ah Kh]"    :> "Ah Kh" )    @@
  ( "[Qs Qd]"    :> "Qs Qd" )

\* ------------------------------------------------------------ small helpers
\* l[a..b], empty when a > b.
Slice(l, a, b) == [i \in 1..(IF b >= a THEN b - a + 1 ELSE 0) |-> l[a + i - 1]]

\* The least element of a non-empty set of integers.
Least(S) == CHOOSE x \in S : \A y \in S : x <= y

\* ln.strip() == "" : nothing but white space.
Blank(l) == \A i \in 1..Len(l) : l[i] = WS

\* "*** HOLE CARDS ***" in b : the literal, case and spacing as written.
HasMarker(l) ==
  \E i \in 1..Len(l) :
    /\ i + 3 <= Len(l)
    /\ l[i] = "***" /\ l[i+1] = "HOLE" /\ l[i+2] = "CARDS" /\ l[i+3] = "***"

\* str.lstrip() of one line.
RECURSIVE LStrip(_)
LStrip(l) == IF l # <<>> /\ Head(l) = WS THEN LStrip(Tail(l)) ELSE l

\* normalize_name: name.strip().rstrip(":") on the fields of a name.
normalize_name(name) ==
  LET n == LStrip(name)
  IN  IF n # <<>> /\ EndsWithColon(n[Len(n)])
        THEN [n EXCEPT ![Len(n)] = ColonTab[n[Len(n)]]]
        ELSE n

\* safe_float(s): float() of the digits a pattern captured in field t, in
\* cents, and the default 0.0 when float() fails.
safe_float(t) ==
  IF t \in DOMAIN MoneyTab THEN MoneyTab[t].cents
  ELSE IF t \in DOMAIN StackTab THEN StackTab[t].cents
  ELSE 0

\* ---------------------------------------------------- PokerdomParser.PATTERNS
\* The capture of a name that is followed by its colon: the colon is matched
\* by the pattern, outside the group.
NameBeforeColon(l, k) == [Slice(l, 1, k) EXCEPT ![k] = ColonTab[l[k]]]

NoMatch == [ok |-> FALSE]

\* "seat": ^Seat\s+(?P<num>\d+):\s+(?P<name>.+?)\s+\((?P<cur>)(?P<stack>)\)
\* The lazy name ends before the first parenthesised stack.
MatchSeat(l) ==
  LET K == {k \in 3..(Len(l) - 1) : IsStack(l[k + 1])}
  IN  IF Len(l) >= 4 /\ l[1] = "Seat" /\ IsSeatNum(l[2]) /\ K # {}
        THEN [ok |-> TRUE, num |-> SeatNumTab[l[2]],
              name |-> Slice(l, 3, Least(K)),
              stack |-> l[Least(K) + 1]]
        ELSE NoMatch

\* "posts": ^(?P<name>.+?):\s+posts\s+(?P<which>small blind|big blind)\s+
\*          (?P<cur>)(?P<amt>\d+(?:\.\d+)?)
PostsAt(l, k) ==
  /\ k + 4 <= Len(l)
  /\ EndsWithColon(l[k])
  /\ Lower(l[k + 1]) = "posts"
  /\ Lower(l[k + 2]) \in {"small", "big"}
  /\ Lower(l[k + 3]) = "blind"
  /\ IsMoney(l[k + 4])

MatchPosts(l) ==
  LET K == {k \in 1..Len(l) : PostsAt(l, k)}
  IN  IF K # {}
        THEN [ok |-> TRUE, name |-> NameBeforeColon(l, Least(K)),
              which |-> Lower(l[Least(K) + 2]),
              cur |-> IF IsMoney(l[Least(K) + 4])
                        THEN MoneyTab[l[Least(K) + 4]].cur ELSE "",
              amt |-> l[Least(K) + 4]]
        ELSE NoMatch

\* "dealt": ^Dealt to\s+(?P<name>.+?)\s+\[(?P<cards>two cards)\]
MatchDealt(l) ==
  LET K == {k \in 3..(Len(l) - 1) : IsHole(l[k + 1])}
  IN  IF Len(l) >= 4 /\ l[1] = "Dealt" /\ l[2] = "to" /\ K # {}
        THEN [ok |-> TRUE, name |-> Slice(l, 3, Least(K)),
              cards |-> HoleTab[l[Least(K) + 1]]]
        ELSE NoMatch

\* "street": ^\*{3}\s+(?P<street>HOLE CARDS|FLOP|TURN|RIVER|SHOW DOWN|SHOWDOWN
\*           |SUMMARY)\s+\*{3}(?:\s+\[(?P<board>[^\]]+)\])?   (IGNORECASE)
\* tag is st.group("street").upper(); board is None when the group is absent.
OneWordStreets == {"FLOP", "TURN", "RIVER", "SHOWDOWN", "SUMMARY"}

MatchStreet(l) ==
  IF Len(l) >= 4 /\ l[1] = "***" /\ l[4] = "***"
     /\ <<Upper(l[2]), Upper(l[3])>> \in {<<"HOLE", "CARDS">>, <<"SHOW", "DOWN">>}
    THEN [ok |-> TRUE,
          tag |-> IF Upper(l[2]) = "HOLE" THEN "HOLE CARDS" ELSE "SHOW DOWN",
          board |-> IF Len(l) >= 5 /\ IsBracket(l[5])
                      THEN BracketTab[l[5]] ELSE NoneStr]
  ELSE IF Len(l) >= 3 /\ l[1] = "***" /\ l[3] = "***"
          /\ Upper(l[2]) \in OneWordStreets
    THEN [ok |-> TRUE, tag |-> Upper(l[2]),
          board |-> IF Len(l) >= 4 /\ IsBracket(l[4])
                      THEN BracketTab[l[4]] ELSE NoneStr]
  ELSE NoMatch

\* sub in tag, for the tags the street pattern can capture.
InTag(sub, tag) ==
  \/ sub = tag
  \/ sub = "SHOW" /\ tag \in {"SHOW DOWN", "SHOWDOWN"}

\* "action": ^(?P<name>.+?):\s+(?P<verb>folds|calls|checks|bets|raises to
\*           |raises|collected)(?:\s+(?P<cur>)(?P<amt>\d+(?:\.\d+)?))?
\* "raises to" is tried before "raises"; the amount group is optional and
\* is looked for right after the verb only.
Verbs == {"folds", "calls", "checks", "bets", "raises", "collected"}

ActionAt(l, k) ==
  /\ k + 1 <= Len(l)
  /\ EndsWithColon(l[k])
  /\ Lower(l[k + 1]) \in Verbs

MatchAction(l) ==
  LET K == {k \in 1..Len(l) : ActionAt(l, k)}
      k == Least(K)
      two == Lower(l[k + 1]) = "raises" /\ k + 2 <= Len(l) /\ Lower(l[k + 2]) = "to"
      nxt == IF two THEN k + 3 ELSE k + 2
  IN  IF K # {}
        THEN [ok |-> TRUE, name |-> NameBeforeColon(l, k),
              verb |-> IF two THEN "raises to" ELSE Lower(l[k + 1]),
              amt |-> IF nxt <= Len(l) /\ IsMoney(l[nxt]) THEN l[nxt] ELSE NoneStr]
        ELSE NoMatch

\* "show": ^(?P<name>.+?)\s+showed\s+\[(?P<cards>[^\]]+)\]
MatchShow(l) ==
  LET K == {k \in 1..(Len(l) - 2) :
              Lower(l[k + 1]) = "showed" /\ l[k + 2] \in DOMAIN ShowTab}
  IN  IF K # {}
        THEN [ok |-> TRUE, name |-> Slice(l, 1, Least(K)),
              cards |-> ShowTab[l[Least(K) + 2]]]
        ELSE NoMatch

\* "collected": ^(?P<name>.+?)\s+collected\s+(?P<cur>)(?P<amt>\d+(?:\.\d+)?)
MatchCollected(l) ==
  LET K == {k \in 1..(Len(l) - 2) :
              Lower(l[k + 1]) = "collected" /\ IsMoney(l[k + 2])}
  IN  IF K # {}
        THEN [ok |-> TRUE, name |-> Slice(l, 1, Least(K)),
              amt |-> l[Least(K) + 2]]
        ELSE NoMatch

\* ------------------------------------------------------------- data models
\* Hand(): the fields the extraction below fills, at their defaults.  Every
\* Hand gets lists and dicts of its own (dataclasses.field(default_factory)).
\* hero None is the empty name; hero_hole None is NoneStr.
NewHand ==
  [currency |-> "$", seats |-> <<>>, blinds |-> <<>>, hero |-> <<>>,
   hero_hole |-> NoneStr, board |-> <<>>, actions |-> <<>>]

\* Seat(num, name, stack)
Seat(num, name, stack) == [num |-> num, name |-> name, stack |-> stack]

\* Action(street, actor, verb, amount=None, cards=None, raw=ln): raw is the
\* source line, kept with its place among the lines of the chunk.
Action(street, actor, verb, amount, cards, no, ln) ==
  [street |-> street, actor |-> actor, verb |-> verb, amount |-> amount,
   cards |-> cards, raw |-> [no |-> no, text |-> ln]]

\* d[k] = v on a dict.
DictSet(d, k, v) == (k :> v) @@ d

\* ---------------------------------------------- PokerdomParser._parse_one
\* The seats loop: one Seat per line the seat pattern matches, in line order.
SeatsPass(lines) ==
  LET sl == SelectSeq(lines, LAMBDA l : MatchSeat(l).ok)
  IN  [i \in 1..Len(sl) |->
         Seat(MatchSeat(sl[i]).num, normalize_name(MatchSeat(sl[i]).name),
              safe_float(MatchSeat(sl[i]).stack))]

\* One turn of the blinds loop.
BlindsStep(h, ln) ==
  LET pm == MatchPosts(ln)
  IN  IF pm.ok
        THEN [h EXCEPT
                !.currency = IF pm.cur # "" THEN pm.cur ELSE @,
                !.blinds = DictSet(@, IF pm.which = "small" THEN "SB" ELSE "BB",
                                   [name |-> normalize_name(pm.name),
                                    amt |-> safe_float(pm.amt)])]
        ELSE h

RECURSIVE BlindsPass(_, _, _)
BlindsPass(h, lines, i) ==
  IF i > Len(lines) THEN h ELSE BlindsPass(BlindsStep(h, lines[i]), lines, i + 1)

\* One turn of the hero loop: every matching line assigns hero and hero_hole.
HeroStep(h, ln) ==
  LET dm == MatchDealt(ln)
  IN  IF dm.ok
        THEN [h EXCEPT !.hero = normalize_name(dm.name), !.hero_hole = dm.cards]
        ELSE h

RECURSIVE HeroPass(_, _, _)
HeroPass(h, lines, i) ==
  IF i > Len(lines) THEN h ELSE HeroPass(HeroStep(h, lines[i]), lines, i + 1)

\* The street a marker line moves to (the if/elif chain on tag).
StreetOf(tag) ==
  IF InTag("FLOP", tag) THEN "FLOP"
  ELSE IF InTag("TURN", tag) THEN "TURN"
  ELSE IF InTag("RIVER", tag) THEN "RIVER"
  ELSE IF InTag("SHOW", tag) THEN "SHOWDOWN"
  ELSE IF InTag("SUMMARY", tag) THEN "SUMMARY"
  ELSE "PREFLOP"

\* The action an action-pattern line appends: the current street, the verb
\* lower-cased, "raises to" folded into "raises".
ActionOfMatch(street, am, no, ln) ==
  Action(street, normalize_name(am.name),
         IF am.verb = "raises to" THEN "raises" ELSE am.verb,
         IF am.amt # NoneStr THEN safe_float(am.amt) ELSE NoneAmt,
         NoneStr, no, ln)

\* A variant of AppendAction that puts the new action first.
PrependAction(actions, a) == <<a>> \o actions

\* h.actions.append(a)
AppendAction(actions, a) == Append(actions, a)

\* One turn of the streets-and-actions loop on line number no.  s holds the
\* local street and the hand; a street line ends the turn (continue), then
\* the action, collected and show patterns are tried in that order.
StreetStep(s, ln, no) ==
  LET st == MatchStreet(ln)
      am == MatchAction(ln)
      cm == MatchCollected(ln)
      sh == MatchShow(ln)
  IN  IF st.ok
        THEN [street |-> StreetOf(st.tag),
              h |-> IF st.board # NoneStr
                      THEN [s.h EXCEPT !.board = DictSet(@, StreetOf(st.tag), st.board)]
                      ELSE s.h]
      ELSE IF am.ok
        THEN [s EXCEPT !.h.actions = AppendAction(@, ActionOfMatch(s.street, am, no, ln))]
      ELSE IF cm.ok
        THEN [s EXCEPT !.h.actions =
                AppendAction(@, Action("SUMMARY", normalize_name(cm.name), "collected",
                                 safe_float(cm.amt), NoneStr, no, ln))]
      ELSE IF sh.ok
        THEN [s EXCEPT !.h.actions =
                AppendAction(@, Action("SHOWDOWN", normalize_name(sh.name), "showed",
                                 NoneAmt, sh.cards, no, ln))]
      ELSE s

RECURSIVE StreetPass(_, _, _)
StreetPass(s, lines, i) ==
  IF i > Len(lines) THEN s ELSE StreetPass(StreetStep(s, lines[i], i), lines, i + 1)

\* lines = [l.rstrip() for l in hand_text.splitlines() if l.strip() != ""]
LinesOf(chunk) == SelectSeq(chunk, LAMBDA l : ~Blank(l))

\* _parse_one on a chunk that has at least one line: the four scans and the
\* street pass, each over all the lines, on a fresh Hand.
ParseOne(chunk) ==
  LET lines == LinesOf(chunk)
      h1 == [NewHand EXCEPT !.seats = SeatsPass(lines)]
      h2 == BlindsPass(h1, lines, 1)
      h3 == HeroPass(h2, lines, 1)
  IN  StreetPass([street |-> "PREFLOP", h |-> h3], lines, 1).h

\* ---------------------------------------------------------- PokerStarsWriter
\* CURRENCY_SIGNS.get(hand.currency, "$")
CurrencySign(c) == IF c \in {"$", "E"} THEN c ELSE "$"

\* f"{cur}{x:.2f}": the glyph, the whole part and the two decimals.
Fmt2(cur, cents) ==
  [has |-> TRUE, cur |-> cur, whole |-> cents \div 100, frac |-> cents % 100]

\* No sum on the line.
NoFmt == [has |-> FALSE, cur |-> "", whole |-> 0, frac |-> 0]

\* One line of the rendered text: the section it stands in, its template
\* (form), the player, the verb, the formatted sum, the cards or board, and
\* the place in the chunk of the source line it renders (0: none), and the
\* seat number of a seat line.
Out(sec, form, who, verb, amt, txt, src) ==
  [sec |-> sec, form |-> form, who |-> who, verb |-> verb, amt |-> amt,
   txt |-> txt, src |-> src, num |-> 0]

\* f"Seat {s.num}: {s.name} ({stack} in chips)"
SeatLine(s, cur) ==
  [Out("HEAD", "seat", s.name, "", Fmt2(cur, s.stack), "", 0) EXCEPT !.num = s.num]

\* sorted(hand.seats, key=lambda x: x.num): a stable sort.
RECURSIVE InsertSeat(_, _)
InsertSeat(sorted, x) ==
  IF sorted = <<>> THEN <<x>>
  ELSE IF sorted[Len(sorted)].num <= x.num THEN Append(sorted, x)
  ELSE Append(InsertSeat(SubSeq(sorted, 1, Len(sorted) - 1), x), sorted[Len(sorted)])

RECURSIVE SortSeats(_)
SortSeats(seats) ==
  IF seats = <<>> THEN <<>>
  ELSE InsertSeat(SortSeats(SubSeq(seats, 1, Len(seats) - 1)), seats[Len(seats)])

\* The two header lines, the seat lines, the blind lines, the hole-cards
\* marker and the hero's line.
WriteHead(hand, cur) ==
  LET ss == SortSeats(hand.seats)
  IN  << Out("HEAD", "header", <<>>, "", NoFmt, "", 0),
         Out("HEAD", "table", <<>>, "", NoFmt, "", 0) >>
      \o [i \in 1..Len(ss) |-> SeatLine(ss[i], cur)]
      \o (IF "SB" \in DOMAIN hand.blinds
            THEN << Out("HEAD", "posts small blind", hand.blinds["SB"].name, "",
                        Fmt2(cur, hand.blinds["SB"].amt), "", 0) >>
            ELSE <<>>)
      \o (IF "BB" \in DOMAIN hand.blinds
            THEN << Out("HEAD", "posts big blind", hand.blinds["BB"].name, "",
                        Fmt2(cur, hand.blinds["BB"].amt), "", 0) >>
            ELSE <<>>)
      \o << Out("PREFLOP", "*** HOLE CARDS ***", <<>>, "", NoFmt, "", 0) >>
      \o (IF hand.hero # <<>> /\ hand.hero_hole # NoneStr
            THEN << Out("PREFLOP", "Dealt to", hand.hero, "", NoFmt, hand.hero_hole, 0) >>
            ELSE <<>>)

\* _format_action: the line of one action, or no line (None) for collected.
FormatAction(a, cur) ==
  IF a.verb \in {"folds", "checks"}
    THEN << Out(a.street, "verb", a.actor, a.verb, NoFmt, "", a.raw.no) >>
  ELSE IF a.verb \in {"calls", "bets"}
    THEN IF a.amount # NoneAmt
           THEN << Out(a.street, "verb amount", a.actor, a.verb,
                       Fmt2(cur, a.amount), "", a.raw.no) >>
           ELSE << Out(a.street, "verb", a.actor, a.verb, NoFmt, "", a.raw.no) >>
  ELSE IF a.verb = "raises"
    THEN IF a.amount # NoneAmt
           THEN << Out(a.street, "raises to", a.actor, a.verb,
                       Fmt2(cur, a.amount), "", a.raw.no) >>
           ELSE << Out(a.street, "verb", a.actor, a.verb, NoFmt, "", a.raw.no) >>
  ELSE IF a.verb = "collected"
    THEN <<>>
  ELSE << Out(a.street, "# raw", <<>>, "", NoFmt, "", a.raw.no) >>

RECURSIVE FormatAll(_, _)
FormatAll(as, cur) ==
  IF as = <<>> THEN <<>> ELSE FormatAction(Head(as), cur) \o FormatAll(Tail(as), cur)

\* dump_street(tag, label): the street's marker (with the board, if the hand
\* has one for tag) unless tag is PREFLOP, then the street's actions; nothing
\* at all for a street other than PREFLOP that has no action.
DumpStreet(hand, cur, tag) ==
  LET street_actions == SelectSeq(hand.actions, LAMBDA a : a.street = tag)
  IN  IF street_actions = <<>> /\ tag # "PREFLOP" THEN <<>>
      ELSE (IF tag = "PREFLOP" THEN <<>>
            ELSE << Out(tag, "*** street ***", <<>>, "", NoFmt,
                        IF tag \in DOMAIN hand.board THEN hand.board[tag] ELSE "", 0) >>)
           \o FormatAll(street_actions, cur)

\* The showdown block: the marker when sd is not empty, then one line per
\* action of sd that is a "showed" with cards.
ShowdownActions(hand) == SelectSeq(hand.actions, LAMBDA a : a.street = "SHOWDOWN")

WriteShowdown(hand) ==
  LET sd == ShowdownActions(hand)
      shown == SelectSeq(sd, LAMBDA a : a.verb = "showed" /\ a.cards \notin {NoneStr, ""})
  IN  IF sd # <<>>
        THEN << Out("SHOWDOWN", "*** SHOW DOWN ***", <<>>, "", NoFmt, "", 0) >>
             \o [i \in 1..Len(shown) |->
                   Out("SHOWDOWN", "shows", shown[i].actor, "", NoFmt,
                       shown[i].cards, shown[i].raw.no)]
        ELSE <<>>

\* The summary block: the marker when coll is not empty, then one line per
\* collected action.  f"{a.amount:.2f}" raises TypeError on None.
Collected(hand) == SelectSeq(hand.actions, LAMBDA a : a.verb = "collected")

SummaryRaises(hand) ==
  \E i \in 1..Len(Collected(hand)) : Collected(hand)[i].amount = NoneAmt

WriteSummary(hand, cur) ==
  LET coll == Collected(hand)
  IN  IF coll # <<>>
        THEN << Out("SUMMARY", "*** SUMMARY ***", <<>>, "", NoFmt, "", 0) >>
             \o [i \in 1..Len(coll) |->
                   Out("SUMMARY", "collected", coll[i].actor, "",
                       Fmt2(cur, coll[i].amount), "", coll[i].raw.no)]
        ELSE <<>>

\* PokerStarsWriter.write: the text, line by line, or the exception.
Write(hand) ==
  LET cur == CurrencySign(hand.currency)
  IN  IF SummaryRaises(hand)
        THEN [raised |-> TRUE, text |-> <<>>]
        ELSE [raised |-> FALSE,
              text |-> WriteHead(hand, cur)
                       \o DumpStreet(hand, cur, "PREFLOP")
                       \o DumpStreet(hand, cur, "FLOP")
                       \o DumpStreet(hand, cur, "TURN")
                       \o DumpStreet(hand, cur, "RIVER")
                       \o WriteShowdown(hand)
                       \o WriteSummary(hand, cur)]

\* ------------------------------------------------------------ state machine
VARIABLES
  text,    \* text.splitlines(): the lines of the input file
  pos,     \* parse: the lines of text the segmentation loop has read
  buf,     \* parse: buf
  chunks,  \* parse: chunks
  ci,      \* parse: the chunks the extraction loop has handled
  hands,   \* parse: hands
  hsrc,    \* hsrc[j]: the index in chunks of the chunk hands[j] was read from
  wi,      \* convert_file: the hands the list comprehension has written
  outs,    \* convert_file: the texts written so far
  pc       \* "seg", "parse", "write", "done", or "failed" (write raised)

vars == <<text, pos, buf, chunks, ci, hands, hsrc, wi, outs, pc>>

\* "\n".join(buf).strip(), as lines: the blank lines at both ends go, and so
\* does the white space before the first line.
RECURSIVE DropBlankHead(_)
DropBlankHead(b) ==
  IF b # <<>> /\ Blank(Head(b)) THEN DropBlankHead(Tail(b)) ELSE b

RECURSIVE DropBlankTail(_)
DropBlankTail(b) ==
  IF b # <<>> /\ Blank(b[Len(b)]) THEN DropBlankTail(SubSeq(b, 1, Len(b) - 1)) ELSE b

StripChunk(b) ==
  LET c == DropBlankTail(DropBlankHead(b))
  IN  IF c = <<>> THEN c ELSE [c EXCEPT ![1] = LStrip(c[1])]

\* A variant of Boundary that ends a chunk at any blank line.
BoundaryAnyBlank(ln, b) == Blank(ln) /\ b # <<>>

\* ln.strip() == "" and buf and any("*** HOLE CARDS ***" in b for b in buf)
Boundary(ln, b) ==
  Blank(ln) /\ b # <<>> /\ \E i \in 1..Len(b) : HasMarker(b[i])

\* One turn of the segmentation loop of parse.
SegLine ==
  /\ pc = "seg"
  /\ pos < Len(text)
  /\ pos' = pos + 1
  /\ IF Boundary(text[pos + 1], buf)
       THEN chunks' = Append(chunks, StripChunk(buf)) /\ buf' = <<>>
       ELSE chunks' = chunks /\ buf' = Append(buf, text[pos + 1])
  /\ UNCHANGED <<text, ci, hands, hsrc, wi, outs, pc>>

\* The end of the segmentation loop: the last buffer, if any, is a chunk.
SegEnd ==
  /\ pc = "seg"
  /\ pos = Len(text)
  /\ chunks' = IF buf # <<>> THEN Append(chunks, StripChunk(buf)) ELSE chunks
  /\ pc' = "parse"
  /\ UNCHANGED <<text, pos, buf, ci, hands, hsrc, wi, outs>>

\* One turn of the extraction loop of parse (h = self._parse_one(chunk); a
\* chunk without lines gives None and no hand), or its end.
ParseChunk ==
  /\ pc = "parse"
  /\ IF ci < Len(chunks)
       THEN /\ ci' = ci + 1
            /\ IF LinesOf(chunks[ci + 1]) # <<>>
                 THEN /\ hands' = Append(hands, ParseOne(chunks[ci + 1]))
                      /\ hsrc' = Append(hsrc, ci + 1)
                 ELSE UNCHANGED <<hands, hsrc>>
            /\ pc' = pc
       ELSE /\ pc' = "write"
            /\ UNCHANGED <<ci, hands, hsrc>>
  /\ UNCHANGED <<text, pos, buf, chunks, wi, outs>>

\* One turn of [writer.write(h) for h in hands] in convert_file, or its end.
\* An exception of write leaves convert_file: the texts written so far are
\* lost with the list.
WriteHand ==
  /\ pc = "write"
  /\ IF wi < Len(hands)
       THEN IF Write(hands[wi + 1]).raised
              THEN pc' = "failed" /\ outs' = <<>> /\ wi' = wi
              ELSE pc' = pc /\ outs' = Append(outs, Write(hands[wi + 1]).text)
                   /\ wi' = wi + 1
       ELSE pc' = "done" /\ UNCHANGED <<wi, outs>>
  /\ UNCHANGED <<text, pos, buf, chunks, ci, hands, hsrc>>

Next == SegLine \/ SegEnd \/ ParseChunk \/ WriteHand

\* The sequences of at most n lines of lib.
Texts(lib, n) == UNION {[1..k -> lib] : k \in 0..n}

InitWith(lib, n) ==
  /\ text \in Texts(lib, n)
  /\ pos = 0 /\ buf = <<>> /\ chunks = <<>> /\ ci = 0
  /\ hands = <<>> /\ hsrc = <<>> /\ wi = 0 /\ outs = <<>>
  /\ pc = "seg"

\* Input lines: street markers and the lines of the betting rounds.
ActLib ==
  { <<"***", "FLOP", "***", "[2c 3d 4h]">>,
    <<"***", "flop", "***">>,
    <<"***", "TURN", "***", "[ 9s ]">>,
    <<"***", "RIVER", "***">>,
    <<"***", "SHOW", "DOWN", "***">>,
    <<"***", "SUMMARY", "***", "[2c 3d 4h]">>,
    <<"***", "HOLE", "CARDS", "***", "[Ah Kh]">>,
    <<"Bob:", "folds">>,
    <<"Ann:", "calls", "$2">>,
    <<"Bob:", "raises", "to", "$12.5">>,
    <<"Bob:", "RAISES", "TO", "12.5">>,
    <<"Bob:", "raises", "$5", "to", "$12.5">>,
    <<"Bob:", "collected", "$5">>,
    <<"Bob:", "collected">>,
    <<"Ann", "collected", "$5">>,
    <<"Ann", "showed", "[Ah Kh]">>,
    <<>> }

\* Input lines for the order of the actions.
OrderLib ==
  { <<"***", "HOLE", "CARDS", "***">>,
    <<>>,
    <<"***", "FLOP", "***", "[2c 3d 4h]">>,
    <<"***", "SHOW", "DOWN", "***">>,
    <<WS, "Bob:", "folds">>,
    <<"Ann:", "calls", "$2">>,
    <<"Bob:", "collected", "$5">>,
    <<"Ann", "collected", "$5">>,
    <<"Ann", "showed", "[Ah Kh]">>,
    <<"Bob", "showed", "[Qs Qd]">> }

\* Input lines for the seats, the blinds and the hero.
HeadLib ==
  { <<"***", "HOLE", "CARDS", "***">>,
    <<>>,
    <<"Seat", "1:", "Ann", "($10)">>,
    <<"Seat", "0:", "Bob:", "($20)">>,
    <<"Bob:", "posts", "small", "blind", "abc">>,
    <<"Ann:", "posts", "big", "blind", "1x">>,
    <<"Ann:", "posts", "Small", "blind", "E1">>,
    <<"Dealt", "to", "Ann", "[Ah Kh]">>,
    <<"Dealt", "to", "Bob", "[Qs Qd]">> }

\* Input lines for the segmentation.
SegLib ==
  { <<"***", "HOLE", "CARDS", "***">>,
    <<"Bob:", "folds">>,
    <<WS, "Ann:", "calls", "$2">>,
    <<WS>>,
    <<>> }

Init == InitWith(ActLib, MaxLines)
Spec == Init /\ [][Next]_vars

InitOrder == InitWith(OrderLib, MaxOrderLines)
SpecOrder == InitOrder /\ [][Next]_vars

InitHead == InitWith(HeadLib, MaxHeadLines)
SpecHead == InitHead /\ [][Next]_vars

InitSeg == InitWith(SegLib, MaxSegLines)
SpecSeg == InitSeg /\ [][Next]_vars

\* ------------------------------------------------------------- properties
\* The lines _parse_one read hands[j] from.
HandLines(j) == LinesOf(chunks[hsrc[j]])

\* The greatest element of a non-empty set of integers.
Greatest(S) == CHOOSE x \in S : \A y \in S : x >= y

\* The street after the last street marker above line no (PREFLOP if none).
CurrentStreet(lines, no) ==
  LET M == {i \in 1..(no - 1) : MatchStreet(lines[i]).ok}
  IN  IF M = {} THEN "PREFLOP" ELSE StreetOf(MatchStreet(lines[Greatest(M)]).tag)

\* C1: in every Record, a 'collected' action has street SUMMARY, a 'showed'
\* action has street SHOWDOWN, and every other action has the street that
\* was current when its line was read.
C1_CollectedShowedStreets ==
  \A j \in 1..Len(hands) : \A k \in 1..Len(hands[j].actions) :
    LET a == hands[j].actions[k]
    IN  /\ a.verb = "collected" => a.street = "SUMMARY"
        /\ a.verb = "showed" => a.street = "SHOWDOWN"
        /\ a.verb \notin {"collected", "showed"}
             => a.street = CurrentStreet(HandLines(j), a.raw.no)

\* A well-formed input: hand blocks one after the other, each starting with
\* an unindented line, holding a hole-cards marker line, and ended by the
\* first blank line after that marker.
FirstMarker(t) == Least({i \in 1..Len(t) : HasMarker(t[i])})

BlockEnd(t) == Least({b \in (FirstMarker(t) + 1)..Len(t) : Blank(t[b])})

HasBlock(t) ==
  /\ ~Blank(t[1]) /\ t[1][1] # WS
  /\ \E i \in 1..Len(t) : HasMarker(t[i]) /\ \E b \in (i + 1)..Len(t) : Blank(t[b])

RECURSIVE WellFormed(_)
WellFormed(t) ==
  t = <<>> \/ (HasBlock(t) /\ WellFormed(SubSeq(t, BlockEnd(t) + 1, Len(t))))

RECURSIVE Blocks(_)
Blocks(t) ==
  IF t = <<>> THEN <<>>
  ELSE <<SubSeq(t, 1, BlockEnd(t) - 1)>> \o Blocks(SubSeq(t, BlockEnd(t) + 1, Len(t)))

\* C2: for an input made of N well-formed hand blocks the segmentation yields
\* exactly N chunks, the i-th holding exactly the lines of the i-th block.
C2_SegmentsAreBlocks ==
  (pc # "seg" /\ WellFormed(text)) => chunks = Blocks(text)

\* C2 witness: two blocks, one of them with a blank line above its marker.
C2_Witness ==
  /\ pc # "seg" /\ WellFormed(text) /\ Len(chunks) = 2
  /\ \E i \in 1..2 : \E n \in 1..Len(chunks[i]) : Blank(chunks[i][n])

\* A blind-posting line, whatever stands where the amount should.
PostsShapeAt(l, k) ==
  /\ k + 4 <= Len(l)
  /\ EndsWithColon(l[k])
  /\ l[k + 1] = "posts"
  /\ Lower(l[k + 2]) \in {"small", "big"}
  /\ l[k + 3] = "blind"

PostsShape(l) == \E k \in 1..Len(l) : PostsShapeAt(l, k)

PostsAmount(l) == l[Least({k \in 1..Len(l) : PostsShapeAt(l, k)}) + 4]

PostsKey(l) ==
  IF Lower(l[Least({k \in 1..Len(l) : PostsShapeAt(l, k)}) + 2]) = "small"
    THEN "SB" ELSE "BB"

\* The fields that are a number, with or without a currency glyph.
NumberFields == {"$5", "$12.5", "12.5", "$2", "E1"}

\* The fields that begin with digits (after the glyph, if any), in cents.
LeadingDigits ==
  ( "$5" :> 500 ) @@ ( "$12.5" :> 1250 ) @@ ( "12.5" :> 1250 ) @@
  ( "$2" :> 200 ) @@ ( "E1" :> 100 ) @@ ( "1x" :> 100 )

MalformedPosts(l) == PostsShape(l) /\ PostsAmount(l) \notin NumberFields

HasMalformedPosts(c) == \E n \in 1..Len(c) : MalformedPosts(c[n])

\* C3: a chunk with a blind-posting line whose amount is not a number yields
\* an error and no Record, and every other chunk that has lines yields its
\* Record.
C3_MalformedBlindIsError ==
  \A i \in 1..ci :
    LET got == \E j \in 1..Len(hands) : hsrc[j] = i
    IN  IF HasMalformedPosts(chunks[i]) THEN ~got
        ELSE LinesOf(chunks[i]) # <<>> => got

\* The posting lines of a chunk that set blind key, by line number.
Postings(lines, key) ==
  {n \in 1..Len(lines) :
     /\ PostsShape(lines[n]) /\ PostsKey(lines[n]) = key
     /\ PostsAmount(lines[n]) \in DOMAIN LeadingDigits}

\* What _parse_one does with such a line instead: every chunk that has lines
\* yields one Record, whose blinds and seats are those of its own lines alone;
\* a posting whose amount does not begin with digits sets no entry, one whose
\* amount begins with digits sets the entry to those digits.
PostsNeverRaise ==
  /\ Len(hsrc) = Cardinality({i \in 1..ci : LinesOf(chunks[i]) # <<>>})
  /\ \A j \in 1..Len(hands) :
       LET lines == HandLines(j)
       IN  /\ lines # <<>>
           /\ \A m \in 1..Len(hands) : m < j => hsrc[m] < hsrc[j]
           /\ Len(hands[j].seats) = Cardinality({n \in 1..Len(lines) : lines[n][1] = "Seat"})
           /\ \A key \in {"SB", "BB"} :
                IF Postings(lines, key) = {}
                  THEN key \notin DOMAIN hands[j].blinds
                  ELSE /\ key \in DOMAIN hands[j].blinds
                       /\ hands[j].blinds[key].amt =
                            LeadingDigits[PostsAmount(lines[Greatest(Postings(lines, key))])]

\* C4: in every Record the seat numbers are pairwise distinct and positive.
C4_SeatNumbersUniquePositive ==
  \A j \in 1..Len(hands) :
    \A a, b \in 1..Len(hands[j].seats) :
      /\ hands[j].seats[a].num > 0
      /\ a # b => hands[j].seats[a].num # hands[j].seats[b].num

\* C5: in every Record the board has keys only in FLOP, TURN, RIVER, and so
\* at most 3 entries.
C5_BoardKeys ==
  \A j \in 1..Len(hands) :
    /\ DOMAIN hands[j].board \subseteq {"FLOP", "TURN", "RIVER"}
    /\ Cardinality(DOMAIN hands[j].board) <= 3

\* C6: for a chunk with two or more dealt lines, hero and hero_hole are those
\* of the first dealt line.
C6_HeroIsFirstDealt ==
  \A j \in 1..Len(hands) :
    LET lines == HandLines(j)
        D == {n \in 1..Len(lines) : lines[n][1] = "Dealt"}
    IN  Cardinality(D) >= 2 =>
          /\ hands[j].hero = <<lines[Least(D)][3]>>
          /\ hands[j].hero_hole = HoleTab[lines[Least(D)][4]]

\* The target a raise line states: the sum after its "to".
ToAt(l) == {i \in 1..(Len(l) - 1) : Lower(l[i]) = "to" /\ l[i + 1] \in DOMAIN LeadingDigits}

IsRaiseLine(l) ==
  /\ MatchAction(l).ok /\ MatchAction(l).verb \in {"raises", "raises to"}
  /\ ToAt(l) # {}

Target(l) == LeadingDigits[l[Least(ToAt(l)) + 1]]

\* C7: a raise line that states a target T gives an action with verb
\* 'raises' and amount T, rendered as 'raises to' T in two decimals; no
\* raises action is rendered in another form.
C7_RaiseToTarget ==
  /\ \A j \in 1..Len(hands) : \A k \in 1..Len(hands[j].actions) :
       LET a == hands[j].actions[k]
       IN  IsRaiseLine(a.raw.text) => a.verb = "raises" /\ a.amount = Target(a.raw.text)
  /\ \A k \in 1..Len(outs) : \A p \in 1..Len(outs[k]) :
       outs[k][p].verb = "raises" =>
         /\ outs[k][p].form = "raises to"
         /\ IsRaiseLine(HandLines(k)[outs[k][p].src]) =>
              100 * outs[k][p].amt.whole + outs[k][p].amt.frac
                = Target(HandLines(k)[outs[k][p].src])

\* The lines that add an action to the Record.
ActionProducing(l) ==
  /\ ~MatchStreet(l).ok
  /\ MatchAction(l).ok \/ MatchCollected(l).ok \/ MatchShow(l).ok

\* C8: the Record's actions are the action-producing lines in source order,
\* one per line, and in the rendered text two actions of the same section
\* stand in the order of their source lines.
C8_ActionOrder ==
  /\ \A j \in 1..Len(hands) :
       LET acts == hands[j].actions
           lines == HandLines(j)
       IN  /\ Len(acts) = Cardinality({n \in 1..Len(lines) : ActionProducing(lines[n])})
           /\ \A k \in 1..Len(acts) :
                /\ acts[k].raw.no \in 1..Len(lines)
                /\ ActionProducing(lines[acts[k].raw.no])
                /\ acts[k].raw.text = lines[acts[k].raw.no]
           /\ \A k, m \in 1..Len(acts) : k < m => acts[k].raw.no < acts[m].raw.no
  /\ \A k \in 1..Len(outs) : \A p, q \in 1..Len(outs[k]) :
       (p < q /\ outs[k][p].src > 0 /\ outs[k][q].src > 0
          /\ outs[k][p].sec = outs[k][q].sec)
         => outs[k][p].src < outs[k][q].src

\* C8 witness: a rendered hand of three actions or more, two of them in one
\* section and one of another section read between them.
C8_Witness ==
  \E k \in 1..Len(outs) : \E p, q, r \in 1..Len(outs[k]) :
    /\ outs[k][p].src > 0 /\ outs[k][q].src > 0 /\ outs[k][r].src > 0
    /\ outs[k][p].sec = outs[k][q].sec /\ outs[k][r].sec # outs[k][p].sec
    /\ outs[k][p].src < outs[k][r].src /\ outs[k][r].src < outs[k][q].src

\* C9: the showdown marker is written only for a Record with a 'showed'
\* action, and then every such action is listed.
C9_ShowdownOnlyIfShowed ==
  \A k \in 1..Len(outs) :
    LET acts == hands[k].actions
        showed == {n \in 1..Len(acts) : acts[n].verb = "showed"}
    IN  /\ (\E p \in 1..Len(outs[k]) : outs[k][p].form = "*** SHOW DOWN ***")
             => showed # {}
        /\ \A n \in showed : \E p \in 1..Len(outs[k]) :
             /\ outs[k][p].form = "shows"
             /\ outs[k][p].who = acts[n].actor
             /\ outs[k][p].txt = acts[n].cards

\* C10: write returns a text for every Record _parse_one can produce, so
\* convert_file never fails on a hand and loses the others.
C10_WriteTotal ==
  /\ pc # "failed"
  /\ pc = "done" => Len(outs) = Len(hands)

====
